---------------------------- MODULE Spec2Model ----------------------------
(***************************************************************************)
(* Model of ai-pdf-extractor: the schema normalizer of schemaLoader.ts     *)
(* (buildFirstPageJsonSchema), the document renderer of index.ts           *)
(* (generateFirstPageMarkdown, generateInnerPagesMarkdown,                 *)
(* generateMarkdown) and its driver (main, processPdf,                     *)
(* isAlreadyProcessed, regenerateMarkdownFiles).                           *)
(*                                                                         *)
(* JSON values are tagged records [t |-> tag, v |-> payload]; an object is *)
(* the sequence of its <<key, value>> entries in enumeration order, so     *)
(* that Object.entries, spread and delete are modelled by what they do.    *)
(* Text lines are TLA+ strings built with \o, as the template literals of  *)
(* the source build them.                                                  *)
(***************************************************************************)
EXTENDS Integers, Sequences, FiniteSets, TLC

VARIABLES
  schema,          \* the SchemaDefinition held by the caller (its firstPageSchema)
  responseFormat,  \* what buildFirstPageJsonSchema(schema) returned, or threw
  renormalized,    \* buildFirstPageJsonSchema applied to the schema it produced
  loadedSchema,    \* the firstPageSchema as loadSchema returned it
  latestFormat,    \* what the latest call on the same SchemaDefinition returned
  calls,           \* the number of calls made on the SchemaDefinition
  innerBlocks,     \* generateInnerPagesMarkdown: its argument innerPagesParagraphs
  idx,             \* ... the number of blocks the for-of loop has consumed
  currentPage,     \* ... the page-number cursor
  lines,           \* ... the lines pushed so far
  innerPc,         \* ... "loop", "returned" or "threw" ("idle": not called)
  firstPage,       \* report.firstPage, the argument of generateFirstPageMarkdown
  fpLines,         \* generateFirstPageMarkdown: the lines it returned
  fpPc,            \* ... "called" or "returned" ("idle": not called)
  stats,           \* generateMarkdown: schemaName, tokenUsage, estimatedCostUSD
  markdown,        \* generateMarkdown: the lines of the text it returned
  docPc,           \* ... "called" or "done" ("idle": not called)
  invocations,     \* interleaved generateInnerPagesMarkdown calls: blocks, idx, lines, pc
  cursors,         \* ... the currentPage variable of each call
  overlapped,      \* ... a call has run a step while another was under way
  locale,          \* the default locale of the runtime (toLocaleString)
  pdfFiles,        \* main: what getPdfFiles lists, as PDF names in listing order
  files,           \* the output directory: per PDF name, its pages directory,
                   \* JSON artifact and text artifact
  run,             \* main: the run under way, its mode, lists and position
  proc,            \* processPdf: the locals of the call under way
  log              \* history: what the calls and runs did so far

schemaVars == <<schema, responseFormat, renormalized, loadedSchema, latestFormat, calls>>

innerVars == <<innerBlocks, idx, currentPage, lines, innerPc>>

firstVars == <<firstPage, fpLines, fpPc>>

docVars == <<stats, markdown, docPc>>

concVars == <<invocations, cursors, overlapped>>

mainVars == <<pdfFiles, files, run, proc, log>>

vars == <<schema, responseFormat, renormalized, loadedSchema, latestFormat, calls,
          innerBlocks, idx, currentPage, lines, innerPc,
          firstPage, fpLines, fpPc,
          stats, markdown, docPc,
          invocations, cursors, overlapped,
          locale, pdfFiles, files, run, proc, log>>

-----------------------------------------------------------------------------
(* JSON values and the JavaScript operations the source applies to them.   *)

JUndefined == [t |-> "undefined", v |-> <<>>]
JNull == [t |-> "null", v |-> <<>>]
JStr(s) == [t |-> "str", v |-> s]
JNum(n) == [t |-> "num", v |-> n]
JBool(b) == [t |-> "bool", v |-> b]
JArr(elems) == [t |-> "arr", v |-> elems]
JObj(entries) == [t |-> "obj", v |-> entries]

\* The outcome of a call that threw instead of returning.
Thrown == [t |-> "throw", v |-> "TypeError"]

\* Not yet computed.
Unset == [t |-> "unset", v |-> <<>>]

IsNullish(x) == x.t \in {"null", "undefined"}

\* JavaScript truthiness (the conditions `a && b`, `a || b`, `if (a)`).
Truthy(x) ==
  CASE x.t \in {"null", "undefined"} -> FALSE
    [] x.t = "str" -> x.v # ""
    [] x.t = "num" -> x.v # 0
    [] x.t = "bool" -> x.v
    [] OTHER -> TRUE

HasKey(o, k) == o.t = "obj" /\ \E i \in 1..Len(o.v) : o.v[i][1] = k

\* Property read o.k of a non-nullish value: undefined when the key is absent.
Get(o, k) ==
  IF HasKey(o, k)
    THEN o.v[CHOOSE i \in 1..Len(o.v) : o.v[i][1] = k][2]
    ELSE JUndefined

\* Object.entries(x): the own entries in enumeration order. The schemas
\* generated below carry only object-valued (or absent) `properties`.
Entries(x) == IF x.t = "obj" THEN x.v ELSE <<>>

\* { ...x }: a fresh object with x's own entries; nothing for null, undefined,
\* numbers and booleans.
Spread(x) == IF x.t = "obj" THEN x ELSE JObj(<<>>)

\* delete o.k on a fresh copy.
Delete(o, k) == JObj(SelectSeq(o.v, LAMBDA e : e[1] # k))


-----------------------------------------------------------------------------
(* schemaLoader.ts: buildFirstPageJsonSchema.                               *)

\* Lines 86-91 and 108-113: every nested property is shallow-copied, its
\* `format` deleted, and its name pushed on the nested required list.
NestedProps(properties) ==
  LET es == Entries(properties)
  IN JObj([i \in 1..Len(es) |-> <<es[i][1], Delete(Spread(es[i][2]), "format")>>])

NestedRequired(properties) ==
  JArr([i \in 1..Len(Entries(properties)) |-> JStr(Entries(properties)[i][1])])

\* A variant that starts the nested required list from the one the node
\* already declares instead of from an empty list.
StrictObjectAppendingRequired(node) ==
  LET old == Get(node, "required")
  IN JObj(<< <<"type", JStr("object")>>,
             <<"properties", NestedProps(Get(node, "properties"))>>,
             <<"required",
               JArr((IF old.t = "arr" THEN old.v ELSE <<>>)
                    \o NestedRequired(Get(node, "properties")).v)>>,
             <<"additionalProperties", JBool(FALSE)>> >>)

\* Lines 95-98 and 115-118: the strict object built from an object node's
\* properties; no other key of the node is carried over.
StrictObject(node) ==
  JObj(<< <<"type", JStr("object")>>,
          <<"properties", NestedProps(Get(node, "properties"))>>,
          <<"required", NestedRequired(Get(node, "properties"))>>,
          <<"additionalProperties", JBool(FALSE)>> >>)

\* Line 102: an array whose items are not an object with properties is
\* shallow-copied as it is.
CopyArray(prop) == Spread(prop)

\* Lines 121-123: any other property is shallow-copied and its `format`
\* deleted.
CleanProp(prop) == Delete(Spread(prop), "format")

\* The body of the loop of lines 77-126 for one property value. Reading
\* prop.type of a null value throws a TypeError (line 81).
StrictProperty(value) ==
  IF IsNullish(value) THEN Thrown
  ELSE IF Get(value, "type") = JStr("array") /\ Truthy(Get(value, "items"))
    THEN LET items == Get(value, "items")
         IN IF Get(items, "type") = JStr("object") /\ Truthy(Get(items, "properties"))
              THEN JObj(<< <<"type", JStr("array")>>,
                           <<"items", StrictObject(items)>> >>)
              ELSE CopyArray(value)
  ELSE IF Get(value, "type") = JStr("object") /\ Truthy(Get(value, "properties"))
    THEN StrictObject(value)
  ELSE CleanProp(value)

\* Line 71: schema.firstPageSchema.properties || {}.
DeclaredProperties(firstPageSchema) ==
  LET p == Get(firstPageSchema, "properties")
  IN IF Truthy(p) THEN p ELSE JObj(<<>>)

\* Lines 128-140: the response-format payload around the strict schema.
ResponseFormat(strictProperties, required) ==
  JObj(<< <<"type", JStr("json_schema")>>,
          <<"json_schema",
            JObj(<< <<"name", JStr("first_page_response")>>,
                    <<"strict", JBool(TRUE)>>,
                    <<"schema",
                      JObj(<< <<"type", JStr("object")>>,
                              <<"properties", strictProperties>>,
                              <<"required", required>>,
                              <<"additionalProperties", JBool(FALSE)>> >>)>> >>)>> >>)

\* Lines 70-141. The result is the payload, or Thrown when the loop threw.
buildFirstPageJsonSchema(def) ==
  LET es == Entries(DeclaredProperties(def.firstPageSchema))
      strict == [i \in 1..Len(es) |-> <<es[i][1], StrictProperty(es[i][2])>>]
  IN IF \E i \in 1..Len(es) : strict[i][2] = Thrown
       THEN Thrown
       ELSE ResponseFormat(JObj(strict),
                           JArr([i \in 1..Len(es) |-> JStr(es[i][1])]))

\* The normalized schema inside a payload.
SchemaOf(payload) == Get(Get(payload, "json_schema"), "schema")

-----------------------------------------------------------------------------
(* The effect of buildFirstPageJsonSchema on its argument.  The only       *)
(* statements that mutate an object are the three `delete x.format`; each  *)
(* acts on the object a spread `{ ...y }` evaluated to.  A reference is    *)
(* either a fresh object or the node of the input tree at a key path.      *)

SpreadAliasing(path) == [fresh |-> FALSE, path |-> path]

\* Lines 87, 109, 121: `{ ...y }` is a fresh object, never y itself.
SpreadTarget(path) == [fresh |-> TRUE, path |-> path]

\* The references on which the loop body of lines 77-126 executes
\* `delete .format` for the declared property `key`.
DeleteTargets(key, value) ==
  LET nestedTargets(prefix, properties) ==
        [i \in 1..Len(Entries(properties)) |->
           SpreadTarget(prefix \o <<Entries(properties)[i][1]>>)]
  IN IF Get(value, "type") = JStr("array") /\ Truthy(Get(value, "items"))
       THEN LET items == Get(value, "items")
            IN IF Get(items, "type") = JStr("object") /\ Truthy(Get(items, "properties"))
                 THEN nestedTargets(<<"properties", key, "items", "properties">>,
                                    Get(items, "properties"))
                 ELSE <<>>
     ELSE IF Get(value, "type") = JStr("object") /\ Truthy(Get(value, "properties"))
       THEN nestedTargets(<<"properties", key, "properties">>, Get(value, "properties"))
     ELSE <<SpreadTarget(<<"properties", key>>)>>

RECURSIVE DeleteAt(_, _, _)
\* The tree after `delete node.k` on the node at `path`.
DeleteAt(tree, path, k) ==
  IF tree.t # "obj" THEN tree
  ELSE IF Len(path) = 0 THEN Delete(tree, k)
  ELSE JObj([i \in 1..Len(tree.v) |->
               IF tree.v[i][1] = Head(path)
                 THEN <<tree.v[i][1], DeleteAt(tree.v[i][2], Tail(path), k)>>
                 ELSE tree.v[i]])

RECURSIVE AfterDeletes(_, _)
AfterDeletes(tree, targets) ==
  IF Len(targets) = 0 THEN tree
  ELSE AfterDeletes(IF Head(targets).fresh THEN tree
                    ELSE DeleteAt(tree, Head(targets).path, "format"),
                    Tail(targets))

RECURSIVE AfterLoop(_, _, _)
\* The input tree after the loop ran over the entries from number i on; the
\* loop stops where reading prop.type throws (line 81).
AfterLoop(tree, es, i) ==
  IF i > Len(es) \/ IsNullish(es[i][2]) THEN tree
  ELSE AfterLoop(AfterDeletes(tree, DeleteTargets(es[i][1], es[i][2])), es, i + 1)

\* The SchemaDefinition after buildFirstPageJsonSchema(def) ran.
InputAfter(def) ==
  [firstPageSchema |->
     AfterLoop(def.firstPageSchema, Entries(DeclaredProperties(def.firstPageSchema)), 1)]

-----------------------------------------------------------------------------
(* The raw first-page schemas the check ranges over: every tree of at most *)
(* MaxNodes nodes (declared properties and array item schemas, at any      *)
(* depth) over the node shapes below.                                      *)

MaxNodes == 3
MaxCalls == 3

\* The i-th declared property of an object (the names of the README's
\* authors example first).
PropNames == <<"name", "email", "phone", "fax", "url", "zip", "city", "note">>

StrLeaf == JObj(<< <<"type", JStr("string")>> >>)
StrFormatLeaf == JObj(<< <<"type", JStr("string")>>, <<"format", JStr("email")>> >>)
NoTypeLeaf == JObj(<<>>)

Leaves == {StrLeaf, StrFormatLeaf, NoTypeLeaf, JNull}

\* An object node as a schema author writes it: loose, or already strict.
ObjNode(ps, strict) ==
  JObj(<< <<"type", JStr("object")>>, <<"properties", JObj(ps)>> >>
       \o (IF strict
             THEN << <<"required", JArr([i \in 1..Len(ps) |-> JStr(ps[i][1])])>>,
                     <<"additionalProperties", JBool(FALSE)>> >>
             ELSE <<>>))

ArrNode(items, withFormat) ==
  JObj(<< <<"type", JStr("array")>>, <<"items", items>> >>
       \o (IF withFormat THEN << <<"format", JStr("uri")>> >> ELSE <<>>))

RECURSIVE Values(_), PropSeqs(_, _)

\* The entry sequences that declare properties number `pos` onwards, using at
\* most n nodes in all (nested ones included).
PropSeqs(n, pos) ==
  {<<>>} \cup
  (IF n = 0 THEN {}
   ELSE UNION { { << <<PropNames[pos], val>> >> \o rest :
                    val \in Values(m), rest \in PropSeqs(n - 1 - m, pos + 1) }
                : m \in 0..(n - 1) })

\* The property values built from at most n nodes.
Values(n) ==
  Leaves
  \cup { ObjNode(ps, strict) : ps \in PropSeqs(n, 1), strict \in BOOLEAN }
  \cup (IF n = 0 THEN {}
        ELSE { ArrNode(items, f) : items \in Values(n - 1) \ {JNull}, f \in BOOLEAN })

\* loadSchema, line 26: schema.properties?.firstPage || {}.
FirstPageSchemas ==
  {JObj(<<>>)} \cup
  { JObj(<< <<"type", JStr("object")>>, <<"properties", JObj(ps)>> >>) :
      ps \in PropSeqs(MaxNodes, 1) }

-----------------------------------------------------------------------------
(* The caller of the normalizer: it loads a schema, builds the response    *)
(* format from it, and the result is fed back to check idempotence.        *)

\* The renderer is not called.
IdleInner ==
  /\ innerBlocks = <<>>
  /\ idx = 0
  /\ currentPage = JUndefined
  /\ lines = <<>>
  /\ innerPc = "idle"

\* No first page is rendered.
IdleFirst ==
  /\ firstPage = <<>>
  /\ fpLines = <<>>
  /\ fpPc = "idle"

\* No document is assembled.
IdleDoc ==
  /\ stats = <<>>
  /\ markdown = <<>>
  /\ docPc = "idle"

\* No interleaved calls.
IdleConc ==
  /\ invocations = <<>>
  /\ cursors = <<>>
  /\ overlapped = FALSE

\* main does not run.
IdleMain ==
  /\ pdfFiles = <<>>
  /\ files = <<>>
  /\ run = <<>>
  /\ proc = <<>>
  /\ log = <<>>

InitSchema ==
  /\ schema \in [firstPageSchema : FirstPageSchemas]
  /\ loadedSchema = schema
  /\ responseFormat = Unset
  /\ renormalized = Unset
  /\ latestFormat = Unset
  /\ calls = 0
  /\ IdleInner
  /\ IdleFirst
  /\ IdleDoc
  /\ IdleConc
  /\ locale = "en-US"
  /\ IdleMain

\* imageAnalyzer.ts analyzeFirstPage: responseFormat = buildFirstPageJsonSchema(schema).
BuildResponseFormat ==
  /\ responseFormat = Unset
  /\ responseFormat' = buildFirstPageJsonSchema(schema)
  /\ latestFormat' = responseFormat'
  /\ schema' = InputAfter(schema)
  /\ calls' = 1
  /\ UNCHANGED <<renormalized, loadedSchema, innerVars, firstVars, docVars, concVars, locale, mainVars>>

\* The next analyzeFirstPage call of the run, with the same SchemaDefinition
\* (index.ts line 341, once per PDF).
BuildAgain ==
  /\ responseFormat # Unset
  /\ calls < MaxCalls
  /\ latestFormat' = buildFirstPageJsonSchema(schema)
  /\ schema' = InputAfter(schema)
  /\ calls' = calls + 1
  /\ UNCHANGED <<responseFormat, renormalized, loadedSchema, innerVars, firstVars, docVars, concVars, locale, mainVars>>

\* buildFirstPageJsonSchema applied to the schema a first call produced.
Renormalize ==
  /\ responseFormat.t = "obj"
  /\ renormalized = Unset
  /\ renormalized' = buildFirstPageJsonSchema([firstPageSchema |-> SchemaOf(responseFormat)])
  /\ UNCHANGED <<schema, responseFormat, loadedSchema, latestFormat, calls,
                 innerVars, firstVars, docVars, concVars, locale, mainVars>>

NextSchema == BuildResponseFormat \/ BuildAgain \/ Renormalize

SpecSchema == InitSchema /\ [][NextSchema]_vars

-----------------------------------------------------------------------------
(* Properties of the normalizer.                                           *)

Built == responseFormat.t = "obj"

RECURSIVE LeaksFormat(_)
\* A schema node that carries a `format` keyword itself, in a declared
\* property at any depth, or in its item schema.
LeaksFormat(node) ==
  /\ node.t = "obj"
  /\ \/ HasKey(node, "format")
     \/ \E i \in 1..Len(Entries(Get(node, "properties"))) :
          LeaksFormat(Entries(Get(node, "properties"))[i][2])
     \/ LeaksFormat(Get(node, "items"))

\* C1: the schema returned by buildFirstPageJsonSchema contains no `format`
\* keyword in any node at any depth.
C1_NoLeakedFormat == Built => ~LeaksFormat(SchemaOf(responseFormat))

IsObjectNode(node) == node.t = "obj" /\ Get(node, "type") = JStr("object")

\* An object node that forbids undeclared keys and requires exactly its own
\* property names, in enumeration order.
StrictHere(node) ==
  /\ Get(node, "additionalProperties") = JBool(FALSE)
  /\ Get(node, "required").t = "arr"
  /\ Get(node, "required").v =
       [i \in 1..Len(Entries(Get(node, "properties"))) |->
          JStr(Entries(Get(node, "properties"))[i][1])]

RECURSIVE StrictEverywhere(_)
StrictEverywhere(node) ==
  \/ node.t # "obj"
  \/ /\ IsObjectNode(node) => StrictHere(node)
     /\ \A i \in 1..Len(Entries(Get(node, "properties"))) :
          StrictEverywhere(Entries(Get(node, "properties"))[i][2])
     /\ StrictEverywhere(Get(node, "items"))

\* C2: every object node of the returned schema, at any depth, has
\* additionalProperties = false and a required list that is exactly its own
\* property names in property-enumeration order.
C2_RequiredCompleteness == Built => StrictEverywhere(SchemaOf(responseFormat))

\* C3: normalization is idempotent: buildFirstPageJsonSchema applied to the
\* schema it produced yields a tree identical to the first result.
C3_Idempotent == renormalized # Unset => renormalized = responseFormat

\* A second pass over a result that holds a nested strict object built from
\* a property whose raw form carried `format`.
C3_Witness ==
  /\ renormalized # Unset
  /\ LeaksFormat(schema.firstPageSchema)
  /\ \E i \in 1..Len(Entries(Get(SchemaOf(responseFormat), "properties"))) :
       LET p == Entries(Get(SchemaOf(responseFormat), "properties"))[i][2]
       IN IsObjectNode(p) /\ Len(Entries(Get(p, "properties"))) > 0

\* C4: buildFirstPageJsonSchema never throws for any parsed raw schema, a
\* declared property whose value is null included.
C4_NeverThrows == responseFormat # Thrown

\* A top-level array property whose items are not an object with properties.
IsPlainArray(value) ==
  /\ value.t = "obj"
  /\ Get(value, "type") = JStr("array")
  /\ ~(Get(Get(value, "items"), "type") = JStr("object")
        /\ Truthy(Get(Get(value, "items"), "properties")))

\* C14: for a top-level array property whose items are not an object with
\* properties, the output is the array node copied verbatim except that its
\* `format` keyword is removed.
C14_PlainArrayWithoutFormat ==
  Built =>
    LET es == Entries(DeclaredProperties(loadedSchema.firstPageSchema))
        out == Get(SchemaOf(responseFormat), "properties")
    IN \A i \in 1..Len(es) :
         IsPlainArray(es[i][2]) => Get(out, es[i][1]) = Delete(es[i][2], "format")

\* C16: buildFirstPageJsonSchema leaves its input unchanged: after any
\* number of calls the firstPageSchema tree, every `format` keyword in it
\* included, is what loadSchema returned, and every call on the same
\* SchemaDefinition returns what the first call returned.
C16_InputUnchanged ==
  /\ schema = loadedSchema
  /\ calls >= 1 => latestFormat = responseFormat

\* Three calls on a schema with a `format` leaf that the result does not
\* carry over.
C16_Witness ==
  /\ calls = 3
  /\ Built
  /\ \E i \in 1..Len(Entries(DeclaredProperties(schema.firstPageSchema))) :
       LET e == Entries(DeclaredProperties(schema.firstPageSchema))[i]
       IN /\ e[2] = StrFormatLeaf
          /\ Get(Get(SchemaOf(latestFormat), "properties"), e[1]) = StrLeaf

-----------------------------------------------------------------------------
(* index.ts: generateInnerPagesMarkdown.  A content block is a record      *)
(* [style, text, table, pageNumber]; an absent field is JUndefined.        *)

\* types.ts lines 14-28, in the order of the switch of lines 125-185.
ParagraphStyles ==
  {"page header", "chapter heading", "subheading 1", "subheading 2",
   "body text", "callout", "exhibit title", "exhibit source",
   "bullet level 1", "bullet level 2", "bullet level 3", "page footer",
   "footnote", "table"}

\* types.ts lines 30-33: a TableData value; headers and rows are JSON values
\* (JArr of strings, JArr of rows, each row a sequence of strings).
JTable(headers, rows) == [t |-> "table", v |-> [headers |-> headers, rows |-> rows]]

RECURSIVE Join(_, _)
\* Array.prototype.join of an array of strings.
Join(cells, sep) ==
  IF Len(cells) = 0 THEN ""
  ELSE IF Len(cells) = 1 THEN cells[1]
  ELSE cells[1] \o sep \o Join(Tail(cells), sep)

PageMarkerWithoutLeadingBlank(page) ==
  <<"Page " \o ToString(page.v), "-----------------------------------------", "">>

\* Lines 119-122: the page-boundary marker.
PageMarker(page) ==
  <<"", "Page " \o ToString(page.v), "-----------------------------------------", "">>

NeedsMarkerWheneverPresent(para, cur) == para.pageNumber # JUndefined

\* Line 117: the page number is present and differs from currentPage.
NeedsMarker(para, cur) == para.pageNumber # JUndefined /\ para.pageNumber # cur

\* Line 124: para.text || "".
TextOf(para) == IF Truthy(para.text) THEN para.text.v ELSE ""

SeparatorRowOfFirstRow(headers, rows) ==
  "| " \o Join([i \in 1..(IF Len(rows) = 0 THEN 0 ELSE Len(rows[1])) |-> "---"], " | ") \o " |"

\* Line 178: one `---` per header.
SeparatorRow(headers, rows) ==
  "| " \o Join([i \in 1..Len(headers) |-> "---"], " | ") \o " |"

\* Lines 179-181: a data row, its cells joined as they are.
DataRow(row) == "| " \o Join(row, " | ") \o " |"

\* Line 176: headers && headers.length > 0.
HasHeaders(table) == Truthy(table.v.headers) /\ Len(table.v.headers.v) > 0

\* Lines 174-184: the table case, for a block on which it does not throw.
TableLines(table) ==
  IF Truthy(table) /\ HasHeaders(table)
    THEN <<"| " \o Join(table.v.headers.v, " | ") \o " |",
           SeparatorRow(table.v.headers.v, table.v.rows.v)>>
         \o [i \in 1..Len(table.v.rows.v) |-> DataRow(table.v.rows.v[i])]
         \o <<"">>
    ELSE <<>>

StyleThrowsUnguarded(para) ==
  /\ para.style = "table"
  /\ \/ IsNullish(para.table)
     \/ HasHeaders(para.table) /\ para.table.v.rows.t # "arr"

\* What makes the switch throw: in the table case, `for (const row of rows)`
\* (line 179) on rows that are not iterable. The destructuring of line 175
\* is guarded by `if (para.table)` (line 174).
StyleThrows(para) ==
  /\ para.style = "table"
  /\ Truthy(para.table)
  /\ HasHeaders(para.table)
  /\ para.table.v.rows.t # "arr"

\* Lines 186-190: the default case.
FallbackLines(text) == IF text # "" THEN <<text, "">> ELSE <<>>

\* Lines 125-191: the switch on para.style.
StyleLines(para) ==
  LET text == TextOf(para)
  IN CASE para.style \in {"page header", "page footer"} -> <<>>
       [] para.style = "chapter heading" -> <<"## " \o text, "">>
       [] para.style = "subheading 1" -> <<"### " \o text, "">>
       [] para.style = "subheading 2" -> <<"#### " \o text, "">>
       [] para.style = "body text" -> <<text, "">>
       [] para.style = "callout" -> <<"> **" \o text \o "**", "">>
       [] para.style = "exhibit title" -> <<"**" \o text \o "**", "">>
       [] para.style = "exhibit source" -> <<"*" \o text \o "*", "">>
       [] para.style = "bullet level 1" -> <<"- " \o text>>
       [] para.style = "bullet level 2" -> <<"  - " \o text>>
       [] para.style = "bullet level 3" -> <<"    - " \o text>>
       [] para.style = "footnote" -> <<"<sup>" \o text \o "</sup>", "">>
       [] para.style = "table" -> TableLines(para.table)
       [] OTHER -> FallbackLines(text)

-----------------------------------------------------------------------------
(* The block sequences the check ranges over.                              *)

MaxBlocks == 3
MaxCols == 2
MaxRows == 2

\* A style outside the closed set.
UnknownStyle == "caption"

Texts == {JUndefined, JNull, JStr(""), JStr("Intro")}

NamedCells(prefix, n) == [i \in 1..n |-> prefix \o ToString(i)]

RECURSIVE SeqsUpTo(_, _)
\* The sequences of at most n elements of S.
SeqsUpTo(S, n) ==
  IF n = 0 THEN {<<>>}
  ELSE SeqsUpTo(S, n - 1) \cup { Append(q, x) : q \in SeqsUpTo(S, n - 1), x \in S }

\* Tables of 0..MaxCols headers and at most MaxRows rows, each row shorter
\* than, as long as or longer than the header row.
Tables ==
  { JTable(JArr(NamedCells("H", k)), JArr(rows)) :
      k \in 0..MaxCols,
      rows \in SeqsUpTo({ NamedCells("c", n) : n \in 0..(MaxCols + 1) }, MaxRows) }

\* One block of every style, with text and table independently present,
\* null or absent.
StyleBlocks ==
  [style : ParagraphStyles \cup {UnknownStyle},
   text : Texts,
   table : {JUndefined, JNull} \cup Tables,
   pageNumber : {JUndefined}]

\* Blocks that differ in their page number.
PageBlocks ==
  [style : {"page header", "chapter heading", "bullet level 1", UnknownStyle},
   text : {JStr("Intro")},
   table : {JNull},
   pageNumber : {JUndefined, JNum(2), JNum(3)}]

BlockSequences == SeqsUpTo(PageBlocks, MaxBlocks) \cup { <<b>> : b \in StyleBlocks }

-----------------------------------------------------------------------------
(* One invocation of generateInnerPagesMarkdown, a block per step.         *)

IdleSchema ==
  /\ schema = [firstPageSchema |-> JObj(<<>>)]
  /\ loadedSchema = schema
  /\ responseFormat = Unset
  /\ renormalized = Unset
  /\ latestFormat = Unset
  /\ calls = 0

\* Lines 109-113: the call, the empty lines and the unset cursor.
InitInner ==
  /\ innerBlocks \in BlockSequences
  /\ idx = 0
  /\ currentPage = JUndefined
  /\ lines = <<>>
  /\ innerPc = "loop"
  /\ IdleSchema
  /\ IdleFirst
  /\ IdleDoc
  /\ IdleConc
  /\ locale = "en-US"
  /\ IdleMain

\* Lines 115-192: one iteration of the loop.
RenderBlock ==
  /\ innerPc = "loop"
  /\ idx < Len(innerBlocks)
  /\ LET para == innerBlocks[idx + 1]
         marker == NeedsMarker(para, currentPage)
     IN IF StyleThrows(para)
          THEN /\ innerPc' = "threw"
               /\ UNCHANGED <<idx, currentPage, lines>>
          ELSE /\ idx' = idx + 1
               /\ currentPage' = IF marker THEN para.pageNumber ELSE currentPage
               /\ lines' = lines
                           \o (IF marker THEN PageMarker(para.pageNumber) ELSE <<>>)
                           \o StyleLines(para)
               /\ innerPc' = "loop"
  /\ UNCHANGED <<innerBlocks, schemaVars, firstVars, docVars, concVars, locale, mainVars>>

\* Line 195: return lines (at once when the sequence is empty, line 112).
ReturnLines ==
  /\ innerPc = "loop"
  /\ idx = Len(innerBlocks)
  /\ innerPc' = "returned"
  /\ UNCHANGED <<innerBlocks, idx, currentPage, lines, schemaVars, firstVars, docVars, concVars, locale, mainVars>>

NextInner == RenderBlock \/ ReturnLines

SpecInner == InitInner /\ [][NextInner]_vars

-----------------------------------------------------------------------------
(* Properties of generateInnerPagesMarkdown.                               *)

\* The page numbers of the blocks that have one, in block order.
PresentPages(blocks) ==
  LET present == SelectSeq(blocks, LAMBDA b : b.pageNumber # JUndefined)
  IN [i \in 1..Len(present) |-> present[i].pageNumber.v]

\* The number of maximal runs of equal values in a sequence.
Runs(pages) ==
  Cardinality({ i \in 1..Len(pages) : i = 1 \/ pages[i] # pages[i - 1] })

\* The number of "Page N" lines of a line sequence, N a page number of the
\* blocks. (No block text of the check is itself of the form "Page N".)
MarkerCount(ls) ==
  Cardinality({ i \in 1..Len(ls) :
                  \E b \in { innerBlocks[j] : j \in 1..Len(innerBlocks) } :
                    b.pageNumber # JUndefined /\ ls[i] = "Page " \o ToString(b.pageNumber.v) })

\* C5: the renderer emits exactly m page-boundary markers, m the number of
\* maximal runs of equal page numbers among the blocks that have a page
\* number (after every block consumed so far, and so at the return); a block
\* without page number triggers none.
C5_PageMarkerCount ==
  innerPc \in {"loop", "returned"} =>
    MarkerCount(lines) = Runs(PresentPages(SubSeq(innerBlocks, 1, idx)))

\* A returned rendering of three blocks, one of them without page number,
\* over two runs of page numbers.
C5_Witness ==
  /\ innerPc = "returned"
  /\ Len(innerBlocks) = 3
  /\ \E i \in 1..3 : innerBlocks[i].pageNumber = JUndefined
  /\ Runs(PresentPages(innerBlocks)) = 2
  /\ MarkerCount(lines) = 2

\* The step that consumed block number idx' without throwing.
Consumed == innerPc = "loop" /\ idx' = idx + 1

\* The marker lines a step pushes before the style lines of its block.
MarkerOf(para) ==
  IF para.pageNumber # JUndefined /\ para.pageNumber # currentPage
    THEN PageMarker(para.pageNumber)
    ELSE <<>>

\* C6 as claimed: the renderer never fails, and a block with an unrecognized
\* tag renders as its text plus a blank line when text is present (a
\* string) and as nothing otherwise.
C6_TotalFallbackWhenPresent ==
  /\ [](innerPc # "threw")
  /\ [][Consumed /\ innerBlocks[idx'].style \notin ParagraphStyles =>
          LET para == innerBlocks[idx']
          IN lines' = lines \o MarkerOf(para)
                      \o (IF para.text.t = "str" THEN <<para.text.v, "">> ELSE <<>>)]_vars

\* C6 amended: the renderer never fails on any style value (the 14 tags and
\* an unrecognized one, text and table independently present, null or
\* absent), and a block with an unrecognized tag renders as its text plus a
\* blank line when text is a non-empty string and as nothing otherwise.
C6_TotalFallbackWhenNonEmpty ==
  /\ [](innerPc # "threw")
  /\ [][Consumed /\ innerBlocks[idx'].style \notin ParagraphStyles =>
          LET para == innerBlocks[idx']
          IN lines' = lines \o MarkerOf(para)
                      \o (IF para.text.t = "str" /\ para.text.v # ""
                            THEN <<para.text.v, "">> ELSE <<>>)]_vars

\* A returned rendering of one block with an unrecognized tag, its text
\* present and its table null.
C6_Witness ==
  /\ innerPc = "returned"
  /\ Len(innerBlocks) = 1
  /\ innerBlocks[1].style = UnknownStyle
  /\ innerBlocks[1].text = JStr("Intro")
  /\ innerBlocks[1].table = JNull
  /\ lines = <<"Intro", "">>

RECURSIVE Dashes(_)
\* k column markers `---`, k >= 1, separated as the cells of a row are.
Dashes(k) == IF k = 1 THEN "---" ELSE "---" \o " | " \o Dashes(k - 1)

\* C7: a table block whose headers are non-empty with length k renders as
\* one header row, one separator row with exactly k `---` markers, one row
\* per data row in order with that row's own cells (neither padded nor
\* truncated to k), then one blank line.
C7_TableRows ==
  [][(/\ Consumed
      /\ innerBlocks[idx'].style = "table"
      /\ innerBlocks[idx'].table.t = "table"
      /\ Len(innerBlocks[idx'].table.v.headers.v) > 0) =>
       LET para == innerBlocks[idx']
           headers == para.table.v.headers.v
           rows == para.table.v.rows.v
       IN lines' = lines \o MarkerOf(para)
                   \o <<"| " \o Join(headers, " | ") \o " |",
                        "| " \o Dashes(Len(headers)) \o " |">>
                   \o [i \in 1..Len(rows) |-> "| " \o Join(rows[i], " | ") \o " |"]
                   \o <<"">>]_vars

\* A returned rendering of a two-column table with a shorter and a longer
\* data row: header, separator, two rows, blank line.
C7_Witness ==
  /\ innerPc = "returned"
  /\ Len(innerBlocks) = 1
  /\ innerBlocks[1].style = "table"
  /\ innerBlocks[1].table.t = "table"
  /\ Len(innerBlocks[1].table.v.headers.v) = 2
  /\ \E i, j \in 1..Len(innerBlocks[1].table.v.rows.v) :
       /\ Len(innerBlocks[1].table.v.rows.v[i]) = 1
       /\ Len(innerBlocks[1].table.v.rows.v[j]) = 3
  /\ Len(lines) = 5
  /\ lines[2] = "| --- | --- |"

\* The text a block's style is applied to: its text, or nothing when the
\* text is absent, null or empty.
SegmentText(para) == IF para.text.t = "str" THEN para.text.v ELSE ""

\* The opening and closing decoration of the text styles that are followed
\* by a blank line.
Decoration ==
  [s \in {"chapter heading", "subheading 1", "subheading 2", "body text",
          "callout", "exhibit title", "exhibit source", "footnote"} |->
     CASE s = "chapter heading" -> <<"## ", "">>
       [] s = "subheading 1" -> <<"### ", "">>
       [] s = "subheading 2" -> <<"#### ", "">>
       [] s = "body text" -> <<"", "">>
       [] s = "callout" -> <<"> **", "**">>
       [] s = "exhibit title" -> <<"**", "**">>
       [] s = "exhibit source" -> <<"*", "*">>
       [] s = "footnote" -> <<"<sup>", "</sup>">>]

BulletIndent == [s \in {"bullet level 1", "bullet level 2", "bullet level 3"} |->
                   CASE s = "bullet level 1" -> ""
                     [] s = "bullet level 2" -> "  "
                     [] s = "bullet level 3" -> "    "]

\* The style part of a block's segment: nothing for page header and page
\* footer, one indented line for a bullet, the decorated line and a blank
\* line for the other text styles; the table and unrecognized styles are
\* the subject of other properties.
StyleSegment(para) ==
  IF para.style \in {"page header", "page footer"} THEN <<>>
  ELSE IF para.style \in DOMAIN BulletIndent
    THEN <<BulletIndent[para.style] \o "- " \o SegmentText(para)>>
  ELSE IF para.style \in DOMAIN Decoration
    THEN <<Decoration[para.style][1] \o SegmentText(para) \o Decoration[para.style][2], "">>
  ELSE StyleLines(para)

RECURSIVE Segments(_, _, _)
\* The segments of the blocks from number i on, the cursor being cur: the
\* 4-line marker when the block's page number is present and differs from
\* the cursor, then the style part.
Segments(blocks, i, cur) ==
  IF i > Len(blocks) THEN <<>>
  ELSE LET n == blocks[i].pageNumber
           boundary == n # JUndefined /\ n # cur
       IN (IF boundary
             THEN <<"", "Page " \o ToString(n.v),
                    "-----------------------------------------", "">>
             ELSE <<>>)
          \o StyleSegment(blocks[i])
          \o Segments(blocks, i + 1, IF boundary THEN n ELSE cur)

\* C15: the output is the concatenation, in block order, of one segment per
\* block: the 4-line page-boundary marker for page N if and only if the
\* block's pageNumber N is present and differs from currentPage (which then
\* becomes N), then the style rendering; page header and page footer give
\* no style lines, bullet level 1/2/3 exactly one line with 0/2/4 spaces of
\* indent and no blank line, each other text style its line and one blank
\* line.
C15_SegmentPerBlock ==
  innerPc = "returned" => lines = Segments(innerBlocks, 1, JUndefined)

\* A page header that triggers the page-2 marker and renders nothing, then a
\* chapter heading and a bullet on the same page.
C15_Witness ==
  /\ innerPc = "returned"
  /\ Len(innerBlocks) = 3
  /\ innerBlocks[1].style = "page header"
  /\ innerBlocks[2].style = "chapter heading"
  /\ innerBlocks[3].style = "bullet level 1"
  /\ \A i \in 1..3 : innerBlocks[i].pageNumber = JNum(2)
  /\ lines = <<"", "Page 2", "-----------------------------------------", "",
               "## Intro", "", "- Intro">>

-----------------------------------------------------------------------------
(* index.ts: generateFirstPageMarkdown.  The first-page record is a        *)
(* function from field names to JSON values, JUndefined for an absent      *)
(* field.  authors, bulletPoints and summaryParagraphs are JArr values of  *)
(* Author records, strings and SummaryParagraph records.                   *)

\* Lines 27-38 with the label lines 43-46 derive from each name: a space
\* before every capital, the first letter in upper case.
metadataFields ==
  << <<"reportType", "Report Type">>,
     <<"reportDate", "Report Date">>,
     <<"companyName", "Company Name">>,
     <<"sectorName", "Sector Name">>,
     <<"bloombergCode", "Bloomberg Code">>,
     <<"rating", "Rating">>,
     <<"previousRating", "Previous Rating">>,
     <<"targetPrice", "Target Price">>,
     <<"marketPrice", "Market Price">>,
     <<"upsideDownside", "Upside Downside">> >>

\* String(value) and `${value}` of a string, a number or a boolean.
JsString(value) ==
  CASE value.t = "str" -> value.v
    [] value.t = "num" -> ToString(value.v)
    [] value.t = "bool" -> (IF value.v THEN "true" ELSE "false")
    [] OTHER -> value.t  \* "null", "undefined"

\* Lines 16-18: the title heading.
TitleLines(fp) ==
  LET title == IF Truthy(fp["reportTitle"]) THEN JsString(fp["reportTitle"])
               ELSE IF Truthy(fp["title"]) THEN JsString(fp["title"])
               ELSE "Report"
  IN <<"# " \o title, "">>

\* Lines 21-24: the subtitle.
SubtitleLines(fp) ==
  IF Truthy(fp["reportSubTitle"])
    THEN <<"## " \o JsString(fp["reportSubTitle"]), "">>
    ELSE <<>>

QualifiesWhenTruthy(value) == Truthy(value)

\* Line 42: the field is present and not null.
Qualifies(value) == value # JUndefined /\ value # JNull

\* Lines 47-51 and 59: the row of one field.
MetadataRow(field, label, value) ==
  "| " \o label \o " | " \o JsString(value)
       \o (IF field = "upsideDownside" THEN "%" ELSE "") \o " |"

\* Lines 40-53: displayMetadata, as rows.
DisplayMetadata(fp) ==
  LET shown == SelectSeq(metadataFields, LAMBDA m : Qualifies(fp[m[1]]))
  IN [i \in 1..Len(shown) |-> MetadataRow(shown[i][1], shown[i][2], fp[shown[i][1]])]

\* Lines 55-62: the metadata table.
MetadataTable(fp) ==
  IF Len(DisplayMetadata(fp)) > 0
    THEN <<"| Field | Value |", "|-------|-------|">> \o DisplayMetadata(fp) \o <<"">>
    ELSE <<>>

\* A JArr with at least one element (`x && x.length > 0`, lines 66, 79, 90).
NonEmptyArray(value) == value.t = "arr" /\ Len(value.v) > 0

RECURSIVE Flatten(_)
\* The concatenation of a sequence of line sequences.
Flatten(parts) == IF Len(parts) = 0 THEN <<>> ELSE Head(parts) \o Flatten(Tail(parts))

\* Lines 70-72: one author.
AuthorLines(author) ==
  <<"- **" \o author.name \o "**">>
  \o (IF author.email # "" THEN <<"  - Email: " \o author.email>> ELSE <<>>)
  \o (IF author.phone # "" THEN <<"  - Phone: " \o author.phone>> ELSE <<>>)

\* Lines 65-75: the Authors section.
AuthorsSection(fp) ==
  LET authors == fp["authors"]
  IN IF NonEmptyArray(authors)
       THEN <<"## Authors", "">>
            \o Flatten([i \in 1..Len(authors.v) |-> AuthorLines(authors.v[i])])
            \o <<"">>
       ELSE <<>>

HighlightsSectionWhenArray(fp) ==
  LET points == fp["bulletPoints"]
  IN IF points.t = "arr"
       THEN <<"## Key Highlights", "">>
            \o [i \in 1..Len(points.v) |-> "- " \o points.v[i]]
            \o <<"">>
       ELSE <<>>

\* Lines 78-86: the Key Highlights section.
HighlightsSection(fp) ==
  LET points == fp["bulletPoints"]
  IN IF NonEmptyArray(points)
       THEN <<"## Key Highlights", "">>
            \o [i \in 1..Len(points.v) |-> "- " \o points.v[i]]
            \o <<"">>
       ELSE <<>>

\* Lines 94-99: one summary paragraph.
SummaryParagraphLines(para) ==
  (IF para.heading # "" THEN <<"### " \o para.heading, "">> ELSE <<>>)
  \o <<para.content, "">>

\* Lines 89-101: the Summary section.
SummarySection(fp) ==
  LET paras == fp["summaryParagraphs"]
  IN IF NonEmptyArray(paras)
       THEN <<"## Summary", "">>
            \o Flatten([i \in 1..Len(paras.v) |-> SummaryParagraphLines(paras.v[i])])
       ELSE <<>>

\* Lines 12-104.
generateFirstPageMarkdown(fp) ==
  TitleLines(fp) \o SubtitleLines(fp) \o MetadataTable(fp)
  \o AuthorsSection(fp) \o HighlightsSection(fp) \o SummarySection(fp)

-----------------------------------------------------------------------------
(* The first-page records the check ranges over: at most MaxFields fields  *)
(* present, each with one of the values below.                             *)

MaxFields == 2

\* The fields the renderer reads, and one it does not.
FieldNames ==
  <<"reportTitle", "title", "reportSubTitle">>
  \o [i \in 1..Len(metadataFields) |-> metadataFields[i][1]]
  \o <<"authors", "bulletPoints", "summaryParagraphs", "analystNote">>

Ann == [name |-> "Ann", email |-> "ann@x.io", phone |-> ""]
Bob == [name |-> "Bob", email |-> "", phone |-> "555"]

FieldValues(field) ==
  CASE field = "reportTitle" -> {JNull, JStr(""), JStr("Q3 Review")}
    [] field = "title" -> {JNull, JStr(""), JStr("X")}
    [] field = "reportSubTitle" -> {JNull, JStr(""), JStr("Outlook")}
    [] field = "authors" -> {JNull, JArr(<<>>), JArr(<<Ann>>), JArr(<<Ann, Bob>>)}
    [] field = "bulletPoints" -> {JNull, JArr(<<>>), JArr(<<"Margins up", "Debt down">>)}
    [] field = "summaryParagraphs" ->
         {JNull, JArr(<<>>),
          JArr(<<[heading |-> "Thesis", content |-> "Strong."],
                 [heading |-> "", content |-> "More."]>>)}
    [] field = "analystNote" -> {JStr("internal")}
    [] OTHER -> {JNull, JStr(""), JStr("Buy"), JNum(0), JBool(FALSE)}

RECURSIVE FieldChoices(_, _)
\* The value sequences for fields number i onwards with at most n present.
FieldChoices(i, n) ==
  IF i > Len(FieldNames) THEN {<<>>}
  ELSE { <<JUndefined>> \o rest : rest \in FieldChoices(i + 1, n) }
       \cup (IF n = 0 THEN {}
             ELSE { <<val>> \o rest :
                      val \in FieldValues(FieldNames[i]), rest \in FieldChoices(i + 1, n - 1) })

FieldIndex(field) == CHOOSE i \in 1..Len(FieldNames) : FieldNames[i] = field

FirstPagesWith(n) ==
  { [field \in { FieldNames[i] : i \in 1..Len(FieldNames) } |-> choice[FieldIndex(field)]] :
      choice \in FieldChoices(1, n) }

-----------------------------------------------------------------------------
(* One call of generateFirstPageMarkdown.                                  *)

InitFirstPage ==
  /\ firstPage \in FirstPagesWith(MaxFields)
  /\ fpLines = <<>>
  /\ fpPc = "called"
  /\ IdleSchema
  /\ IdleInner
  /\ IdleDoc
  /\ IdleConc
  /\ locale = "en-US"
  /\ IdleMain

\* Lines 12-104: the call returns its lines.
RenderFirstPage ==
  /\ fpPc = "called"
  /\ fpLines' = generateFirstPageMarkdown(firstPage)
  /\ fpPc' = "returned"
  /\ UNCHANGED <<firstPage, schemaVars, innerVars, docVars, concVars, locale, mainVars>>

NextFirstPage == RenderFirstPage

SpecFirstPage == InitFirstPage /\ [][NextFirstPage]_vars

-----------------------------------------------------------------------------
(* Properties of generateFirstPageMarkdown.                                *)

Has(ls, line) == \E i \in 1..Len(ls) : ls[i] = line

\* The first lines of the elements that can follow the title and subtitle.
SectionStarts == {"| Field | Value |", "## Authors", "## Key Highlights", "## Summary"}

\* The line after the title heading and its blank line is a subtitle.
SubtitleEmitted(ls) == Len(ls) >= 3 /\ ls[3] \notin SectionStarts

\* The field is present and non-empty: not absent, not null, not the empty
\* string and not an empty array.
PresentNonEmpty(value) ==
  /\ value \notin {JUndefined, JNull}
  /\ value # JStr("")
  /\ value # JArr(<<>>)

AllowlistedNames == { metadataFields[i][1] : i \in 1..Len(metadataFields) }

\* Subtitle, Authors, Key Highlights and Summary are each emitted exactly
\* when their own field is present and non-empty.
SectionsFollowOwnField ==
  /\ SubtitleEmitted(fpLines) <=> PresentNonEmpty(firstPage["reportSubTitle"])
  /\ Has(fpLines, "## Authors") <=> PresentNonEmpty(firstPage["authors"])
  /\ Has(fpLines, "## Key Highlights") <=> PresentNonEmpty(firstPage["bulletPoints"])
  /\ Has(fpLines, "## Summary") <=> PresentNonEmpty(firstPage["summaryParagraphs"])

\* C8 as claimed: each optional element (subtitle, metadata table, Authors,
\* Key Highlights, Summary) is emitted if and only if its own source field
\* is present and non-empty, whatever the other fields are.
C8_EmittedIffPresentNonEmpty ==
  fpPc = "returned" =>
    /\ SectionsFollowOwnField
    /\ Has(fpLines, "| Field | Value |") <=>
         \E f \in AllowlistedNames : PresentNonEmpty(firstPage[f])

\* C8 amended: subtitle, Authors, Key Highlights and Summary are each
\* emitted if and only if their own field is present and non-empty; the
\* metadata table is emitted if and only if some allowlisted field is
\* present and not null (an empty string counts), whatever the other fields
\* are.
C8_EmittedIffOwnFieldQualifies ==
  fpPc = "returned" =>
    /\ SectionsFollowOwnField
    /\ Has(fpLines, "| Field | Value |") <=>
         \E f \in AllowlistedNames : firstPage[f] \notin {JUndefined, JNull}

\* The scenario {title: "X", bulletPoints: []}: the heading and nothing else.
C8_Witness ==
  /\ fpPc = "returned"
  /\ firstPage["title"] = JStr("X")
  /\ firstPage["bulletPoints"] = JArr(<<>>)
  /\ fpLines = <<"# X", "">>

RECURSIVE ExpectedRows(_, _)
\* The rows of the allowlisted fields number i onwards that are present and
\* not null, in allowlist order.
ExpectedRows(fp, i) ==
  IF i > Len(metadataFields) THEN <<>>
  ELSE LET m == metadataFields[i]
       IN (IF fp[m[1]] \notin {JUndefined, JNull}
             THEN <<"| " \o m[2] \o " | " \o JsString(fp[m[1]])
                         \o (IF m[1] = "upsideDownside" THEN "%" ELSE "") \o " |">>
             ELSE <<>>)
          \o ExpectedRows(fp, i + 1)

\* C9: the metadata table holds exactly one row for each allowlisted field
\* that is present and non-null (0, false and the empty string included), in
\* allowlist order, and no other row; header and separator are absent when
\* no field qualifies.
C9_MetadataRows ==
  fpPc = "returned" =>
    LET rows == ExpectedRows(firstPage, 1)
        n == Len(rows)
    IN IF n = 0
         THEN ~Has(fpLines, "| Field | Value |") /\ ~Has(fpLines, "|-------|-------|")
         ELSE /\ Cardinality({ i \in 1..Len(fpLines) : fpLines[i] = "| Field | Value |" }) = 1
              /\ \E p \in 1..Len(fpLines) :
                   /\ fpLines[p] = "| Field | Value |"
                   /\ Len(fpLines) >= p + n + 2
                   /\ fpLines[p + 1] = "|-------|-------|"
                   /\ SubSeq(fpLines, p + 2, p + n + 1) = rows
                   /\ fpLines[p + n + 2] = ""

\* Two allowlisted fields with the values "" and 0, each with its row, the
\* rows in allowlist order.
C9_Witness ==
  /\ fpPc = "returned"
  /\ firstPage["companyName"] = JStr("")
  /\ firstPage["targetPrice"] = JNum(0)
  /\ fpLines = <<"# Report", "", "| Field | Value |", "|-------|-------|",
                 "| Company Name |  |", "| Target Price | 0 |", "">>

-----------------------------------------------------------------------------
(* index.ts: generateMarkdown, with the whole-sequence form of             *)
(* generateInnerPagesMarkdown it calls.  Token counts are naturals and the *)
(* cost is held in millionths of a dollar.                                 *)

RECURSIVE RenderFrom(_, _, _)
\* Lines 115-192 from block number i on, currentPage being cur.
RenderFrom(blocks, i, cur) ==
  IF i > Len(blocks) THEN <<>>
  ELSE LET para == blocks[i]
           marker == NeedsMarker(para, cur)
       IN (IF marker THEN PageMarker(para.pageNumber) ELSE <<>>)
          \o StyleLines(para)
          \o RenderFrom(blocks, i + 1, IF marker THEN para.pageNumber ELSE cur)

\* Lines 109-196, for blocks on which the switch does not throw.
generateInnerPagesMarkdown(blocks) == RenderFrom(blocks, 1, JUndefined)

\* imageAnalyzer.ts (config.ts lines 55-59): 2 dollars per million input
\* tokens and 8 per million output tokens, in millionths of a dollar.
calculateCost(tokenUsage) == 2 * tokenUsage.inputTokens + 8 * tokenUsage.outputTokens

\* n in d digits, zero-padded on the left.
RECURSIVE Padded(_, _)
Padded(n, d) == IF d = 0 THEN "" ELSE Padded(n \div 10, d - 1) \o ToString(n % 10)

\* The default locales the runtime may have, and their digit-group
\* separators.
Locales == {"en-US", "de-DE"}

GroupSeparator == [l \in Locales |-> IF l = "en-US" THEN "," ELSE "."]

RECURSIVE toLocaleString(_)
\* Number.prototype.toLocaleString of a natural, called without arguments:
\* groups of three digits with the separator of the runtime's default locale.
toLocaleString(n) ==
  IF n < 1000 THEN ToString(n)
  ELSE toLocaleString(n \div 1000) \o GroupSeparator[locale] \o Padded(n % 1000, 3)

\* Number.prototype.toFixed(4) of a cost of `micro` millionths of a dollar.
toFixed4(micro) ==
  LET units == (micro + 50) \div 100
  IN ToString(units \div 10000) \o "." \o Padded(units % 10000, 4)

\* Lines 209-221: the statistics table and the horizontal rule. (The source
\* heading carries an emoji between "## " and "Processing".)
StatisticsLines(st) ==
  <<"## Processing Statistics",
    "",
    "| Metric | Value |",
    "|--------|-------|",
    "| Schema | " \o st.schemaName \o " |",
    "| Input Tokens | " \o toLocaleString(st.tokenUsage.inputTokens) \o " |",
    "| Output Tokens | " \o toLocaleString(st.tokenUsage.outputTokens) \o " |",
    "| Total Tokens | " \o toLocaleString(st.tokenUsage.totalTokens) \o " |",
    "| **Estimated Cost (USD)** | **$" \o toFixed4(st.estimatedCostUSD) \o "** |",
    "",
    "---",
    "">>

\* Lines 224-226: the first page's marker.
PageOneMarker == <<"Page 1", "-----------------------------------------", "">>

generateMarkdownInnerFirst(fp, blocks, st) ==
  StatisticsLines(st) \o PageOneMarker
  \o generateInnerPagesMarkdown(blocks) \o generateFirstPageMarkdown(fp)

\* Lines 201-233: the lines that the function joins with "\n" and returns.
generateMarkdown(fp, blocks, st) ==
  StatisticsLines(st) \o PageOneMarker
  \o generateFirstPageMarkdown(fp) \o generateInnerPagesMarkdown(blocks)

-----------------------------------------------------------------------------
(* The reports and statistics the check ranges over, and one call of       *)
(* generateMarkdown.                                                       *)

MaxDocFields == 1

BodyOnPage(n) ==
  [style |-> "body text", text |-> JStr("Intro"), table |-> JNull, pageNumber |-> JNum(n)]

BulletOnPage(n) ==
  [style |-> "bullet level 1", text |-> JStr("Intro"), table |-> JNull, pageNumber |-> JNum(n)]

\* Inner blocks as processPdf tags them (lines 351-357): pages from 2 on.
DocBlockSequences ==
  {<<>>, <<BodyOnPage(2)>>, <<BodyOnPage(2), BulletOnPage(2), BodyOnPage(3)>>}

TokenUsages ==
  {[inputTokens |-> 0, outputTokens |-> 0, totalTokens |-> 0],
   [inputTokens |-> 1234567, outputTokens |-> 8901, totalTokens |-> 1243468]}

InitDoc ==
  /\ firstPage \in FirstPagesWith(MaxDocFields)
  /\ innerBlocks \in DocBlockSequences
  /\ stats \in { [schemaName |-> "stock_report", tokenUsage |-> u,
                  estimatedCostUSD |-> calculateCost(u)] : u \in TokenUsages }
  /\ markdown = <<>>
  /\ docPc = "called"
  /\ idx = 0
  /\ currentPage = JUndefined
  /\ lines = <<>>
  /\ innerPc = "idle"
  /\ fpLines = <<>>
  /\ fpPc = "idle"
  /\ IdleSchema
  /\ IdleConc
  /\ locale \in Locales
  /\ IdleMain

\* Lines 201-233.
GenerateMarkdown ==
  /\ docPc = "called"
  /\ markdown' = generateMarkdown(firstPage, innerBlocks, stats)
  /\ docPc' = "done"
  /\ UNCHANGED <<stats, schemaVars, innerVars, firstVars, concVars, locale, mainVars>>

NextDoc == GenerateMarkdown

SpecDoc == InitDoc /\ [][NextDoc]_vars

\* C10: the text of generateMarkdown is, in this order, the Processing
\* Statistics table, a horizontal rule, the "Page 1" marker, all first-page
\* lines, then all inner-block lines; the statistics heading appears once,
\* at the start.
C10_SegmentOrder ==
  docPc = "done" =>
    LET fp == generateFirstPageMarkdown(firstPage)
        inner == generateInnerPagesMarkdown(innerBlocks)
    IN /\ Len(markdown) = 15 + Len(fp) + Len(inner)
       /\ SubSeq(markdown, 1, 12) = StatisticsLines(stats)
       /\ markdown[1] = "## Processing Statistics"
       /\ Cardinality({ i \in 1..Len(markdown) : markdown[i] = "## Processing Statistics" }) = 1
       /\ markdown[3] = "| Metric | Value |"
       /\ markdown[11] = "---"
       /\ markdown[13] = "Page 1"
       /\ SubSeq(markdown, 16, 15 + Len(fp)) = fp
       /\ SubSeq(markdown, 16 + Len(fp), Len(markdown)) = inner

\* A document with a Key Highlights section on page 1 and blocks on pages 2
\* and 3 after it.
C10_Witness ==
  /\ docPc = "done"
  /\ Len(innerBlocks) = 3
  /\ firstPage["bulletPoints"] = JArr(<<"Margins up", "Debt down">>)
  /\ stats.tokenUsage.inputTokens = 1234567
  /\ markdown[6] = "| Input Tokens | 1,234,567 |"
  /\ markdown[9] = "| **Estimated Cost (USD)** | **$2.5403** |"
  /\ markdown[18] = "## Key Highlights"
  /\ markdown[24] = "Page 2"
  /\ markdown[Len(markdown) - 1] = "Intro"

-----------------------------------------------------------------------------
(* Interleaved invocations of generateInnerPagesMarkdown.  `lines` (line   *)
(* 110) and `currentPage` (line 113) are declared inside the function:     *)
(* every invocation has its own.  The invocations advance one loop         *)
(* iteration at a time, in any order.                                      *)

MaxConcBlocks == 2

Invocations == {"a", "b"}

ConcBlocks ==
  [style : {"bullet level 1"},
   text : {JStr("Intro")},
   table : {JNull},
   pageNumber : {JUndefined, JNum(2), JNum(3)}]

CursorCellShared(k) == "a"

\* Line 113: `let currentPage` of invocation k is a variable of its own.
CursorCell(k) == k

InitConc ==
  /\ invocations \in [Invocations -> [blocks : SeqsUpTo(ConcBlocks, MaxConcBlocks),
                                      idx : {0}, lines : {<<>>}, pc : {"loop"}]]
  /\ cursors = [k \in Invocations |-> JUndefined]
  /\ overlapped = FALSE
  /\ IdleSchema
  /\ IdleInner
  /\ IdleFirst
  /\ IdleDoc
  /\ locale = "en-US"
  /\ IdleMain

Underway(k) == invocations[k].pc = "loop" /\ invocations[k].idx > 0

\* Lines 115-192: one iteration of the loop of invocation k.
RenderBlockOf(k) ==
  /\ invocations[k].pc = "loop"
  /\ invocations[k].idx < Len(invocations[k].blocks)
  /\ LET para == invocations[k].blocks[invocations[k].idx + 1]
         cell == CursorCell(k)
         marker == NeedsMarker(para, cursors[cell])
     IN /\ cursors' = [cursors EXCEPT ![cell] = IF marker THEN para.pageNumber ELSE @]
        /\ invocations' =
             [invocations EXCEPT
                ![k].idx = @ + 1,
                ![k].lines = @ \o (IF marker THEN PageMarker(para.pageNumber) ELSE <<>>)
                               \o StyleLines(para)]
  /\ overlapped' = (overlapped \/ \E j \in Invocations \ {k} : Underway(j))
  /\ UNCHANGED <<schemaVars, innerVars, firstVars, docVars, locale, mainVars>>

\* Line 195: invocation k returns its lines.
ReturnLinesOf(k) ==
  /\ invocations[k].pc = "loop"
  /\ invocations[k].idx = Len(invocations[k].blocks)
  /\ invocations' = [invocations EXCEPT ![k].pc = "returned"]
  /\ UNCHANGED <<cursors, overlapped, schemaVars, innerVars, firstVars, docVars,
                 locale, mainVars>>

NextConc == \E k \in Invocations : RenderBlockOf(k) \/ ReturnLinesOf(k)

SpecConc == InitConc /\ [][NextConc]_vars

\* C13: when two generateInnerPagesMarkdown invocations on different block
\* sequences are interleaved in any order, each returns exactly the output
\* it returns when run alone.
C13_NoInterference ==
  \A k \in Invocations :
    invocations[k].pc = "returned" =>
      invocations[k].lines = generateInnerPagesMarkdown(invocations[k].blocks)

\* Two invocations whose iterations overlapped, one over pages 2 and 3, the
\* other over page 3 twice, both returned.
C13_Witness ==
  /\ overlapped
  /\ \A k \in Invocations : invocations[k].pc = "returned"
  /\ \A k \in Invocations : Len(invocations[k].blocks) = 2
  /\ invocations["a"].blocks[1].pageNumber = JNum(2)
  /\ invocations["a"].blocks[2].pageNumber = JNum(3)
  /\ invocations["b"].blocks[1].pageNumber = JNum(3)
  /\ invocations["b"].blocks[2].pageNumber = JNum(3)
  /\ Len(invocations["a"].lines) = 10
  /\ Len(invocations["b"].lines) = 6

-----------------------------------------------------------------------------
(* The artifacts of a report directory and what is read back from them.    *)
(* A text artifact is held as its lines; the text is those lines joined    *)
(* with "\n" (index.ts line 232), and the patterns of                      *)
(* regenerateMarkdownFiles are matched against that text, character by     *)
(* character.  A JSON artifact is held as the JSON value its text denotes. *)

\* An artifact that does not exist.
Missing == [t |-> "missing", v |-> <<>>]

\* JSON.stringify of an object given as a function from keys to values:
\* the entries of the keys, in the given order, whose value is not undefined.
DefinedEntries(keys, object) ==
  LET present == SelectSeq(keys, LAMBDA k : object[k] # JUndefined)
  IN JObj([i \in 1..Len(present) |-> <<present[i], object[present[i]]>>])

BlockKeys == <<"style", "text", "table", "pageNumber">>

\* index.ts line 389: JSON.stringify(report, null, 2).
JSONStringify(report) ==
  JObj(<< <<"firstPage", DefinedEntries(FieldNames, report.firstPage)>>,
          <<"innerPagesParagraphs",
            JArr([i \in 1..Len(report.innerPagesParagraphs) |->
                    DefinedEntries(BlockKeys,
                                   [report.innerPagesParagraphs[i] EXCEPT
                                      !.style = JStr(@)])])>> >>)

\* index.ts line 277: JSON.parse(jsonContent) as Report; reading a key that
\* is not in the text gives undefined.
JSONParseReport(json) ==
  LET blocks == Get(json, "innerPagesParagraphs").v
  IN [firstPage |->
        [f \in { FieldNames[i] : i \in 1..Len(FieldNames) } |->
           Get(Get(json, "firstPage"), f)],
      innerPagesParagraphs |->
        [i \in 1..Len(blocks) |->
           [style |-> Get(blocks[i], "style").v,
            text |-> Get(blocks[i], "text"),
            table |-> Get(blocks[i], "table"),
            pageNumber |-> Get(blocks[i], "pageNumber")]]]

DigitChars == {"0", "1", "2", "3", "4", "5", "6", "7", "8", "9"}

RECURSIVE Capture(_, _, _)
\* The longest run of characters of `class` in `text` from index i on.
Capture(text, class, i) ==
  IF i > Len(text) \/ SubSeq(text, i, i) \notin class THEN ""
  ELSE SubSeq(text, i, i) \o Capture(text, class, i + 1)

\* text.match(/<prefix>([<class>]+)/): the leftmost occurrence of the
\* literal prefix that is followed by a character of the class, and the
\* greedy capture from there.
Match(text, prefix, class) ==
  LET n == Len(prefix)
      starts == { i \in 1..(Len(text) - n) :
                    /\ SubSeq(text, i, i + n - 1) = prefix
                    /\ SubSeq(text, i + n, i + n) \in class }
  IN IF starts = {} THEN [matched |-> FALSE, group |-> ""]
     ELSE [matched |-> TRUE,
           group |-> Capture(text, class,
                             n + CHOOSE i \in starts : \A j \in starts : i <= j)]

RECURSIVE RemoveCommas(_)
\* replace(/,/g, "").
RemoveCommas(str) ==
  IF Len(str) = 0 THEN ""
  ELSE (IF Head(str) = "," THEN "" ELSE Head(str)) \o RemoveCommas(Tail(str))

RECURSIVE DigitsValue(_, _)
\* The number written by the leading digits of str, after the digits
\* already read as acc.
DigitsValue(str, acc) ==
  IF Len(str) = 0 \/ Head(str) \notin DigitChars THEN acc
  ELSE DigitsValue(Tail(str), 10 * acc + (CHOOSE d \in 0..9 : ToString(d) = Head(str)))

\* parseInt of a string that starts with a digit.
parseInt(str) == DigitsValue(str, 0)

\* parseFloat of a string of digits and dots that starts with a digit, in
\* millionths: the digits before the first dot and up to six after it.
parseFloat(str) ==
  LET whole == Capture(str, DigitChars, 1)
      dotted == Len(str) > Len(whole)
      fraction == IF dotted THEN Capture(str, DigitChars, Len(whole) + 2) ELSE ""
      six == SubSeq(fraction \o "000000", 1, 6)
  IN 1000000 * DigitsValue(whole, 0) + DigitsValue(six, 0)

\* index.ts lines 280-297: the statistics recovered from the existing text
\* artifact; 0 for a pattern that is not found or an artifact that cannot
\* be read.
RecoveredStatistics(md) ==
  LET existingMd == IF md = Missing THEN "" ELSE Join(md, "\n")
      counts == DigitChars \cup {","}
      inputMatch == Match(existingMd, "Input Tokens | ", counts)
      outputMatch == Match(existingMd, "Output Tokens | ", counts)
      totalMatch == Match(existingMd, "Total Tokens | ", counts)
      costMatch == Match(existingMd, "Estimated Cost (USD)** | **$", DigitChars \cup {"."})
      count(m) == IF m.matched THEN parseInt(RemoveCommas(m.group)) ELSE 0
  IN [tokenUsage |-> [inputTokens |-> count(inputMatch),
                      outputTokens |-> count(outputMatch),
                      totalTokens |-> count(totalMatch)],
      estimatedCostUSD |-> IF costMatch.matched THEN parseFloat(costMatch.group) ELSE 0]

-----------------------------------------------------------------------------
(* index.ts: main, processPdf, isAlreadyProcessed and                      *)
(* regenerateMarkdownFiles, over the output directory.  The collaborators  *)
(* (convertPdfToImages, analyzeFirstPage, analyzeInnerPage) return or      *)
(* throw as the environment decides; the file system accepts every write.  *)
(* A run is one execution of main; runs follow one another.                *)

MaxPages == 3
MaxRuns == 2

\* The PDF names of the pdfs directory, in the order readdir lists them.
PdfNames == <<"alpha", "beta">>

PdfListings == {<<>>, <<"alpha">>, <<"alpha", "beta">>, <<"beta", "alpha">>}

\* loadSchema line 23: the name of the schema of every run.
SchemaName == "stock_report"

\* What the extraction calls return when they do not throw.
FirstPageData ==
  [f \in { FieldNames[i] : i \in 1..Len(FieldNames) } |->
     CASE f = "reportTitle" -> JStr("Q3 Review")
       [] f = "rating" -> JStr("Buy")
       [] OTHER -> JUndefined]

FirstPageUsage == [inputTokens |-> 1200, outputTokens |-> 300, totalTokens |-> 1500]

InnerPageUsage == [inputTokens |-> 800, outputTokens |-> 150, totalTokens |-> 950]

Paragraph(style, text) ==
  [style |-> style, text |-> JStr(text), table |-> JNull, pageNumber |-> JUndefined]

PageParagraphs ==
  {<<Paragraph("body text", "Page 1")>>,
   <<Paragraph("chapter heading", "Intro"), Paragraph("bullet level 1", "Intro")>>}

\* pdfProcessor.ts lines 16-46: a throw, or totalPages page images.
ConversionOutcomes ==
  {[ok |-> FALSE, error |-> "Invalid PDF structure", totalPages |-> 0]}
  \cup { [ok |-> TRUE, error |-> "", totalPages |-> n] : n \in 0..MaxPages }

\* imageAnalyzer.ts lines 83-134.
FirstPageOutcomes ==
  {[ok |-> FALSE, error |-> "No response from GPT for first page analysis",
    data |-> <<>>, tokenUsage |-> <<>>],
   [ok |-> TRUE, error |-> "", data |-> FirstPageData, tokenUsage |-> FirstPageUsage]}

\* imageAnalyzer.ts lines 144-228.
InnerPageOutcomes ==
  {[ok |-> FALSE, paragraphs |-> <<>>, tokenUsage |-> <<>>]}
  \cup { [ok |-> TRUE, paragraphs |-> ps, tokenUsage |-> InnerPageUsage] :
           ps \in PageParagraphs }

aggregateTokenUsageOfLast(usages) ==
  IF Len(usages) = 0
    THEN [inputTokens |-> 0, outputTokens |-> 0, totalTokens |-> 0]
    ELSE usages[Len(usages)]

RECURSIVE aggregateTokenUsage(_)
\* imageAnalyzer.ts (config.ts lines 64-73).
aggregateTokenUsage(usages) ==
  IF Len(usages) = 0
    THEN [inputTokens |-> 0, outputTokens |-> 0, totalTokens |-> 0]
    ELSE LET acc == aggregateTokenUsage(SubSeq(usages, 1, Len(usages) - 1))
             usage == usages[Len(usages)]
         IN [inputTokens |-> acc.inputTokens + usage.inputTokens,
             outputTokens |-> acc.outputTokens + usage.outputTokens,
             totalTokens |-> acc.totalTokens + usage.totalTokens]

PageNumberOfIndex(i) == i

\* index.ts line 351: const pageNumber = i + 1.
PageNumberOf(i) == i + 1

\* index.ts line 356: each paragraph with the page number added.
WithPageNumber(paragraphs, pageNumber) ==
  [j \in 1..Len(paragraphs) |-> [paragraphs[j] EXCEPT !.pageNumber = JNum(pageNumber)]]

NoPagesConvertedNever(totalPages) == FALSE

\* index.ts line 334.
NoPagesConverted(totalPages) == totalPages = 0

SaveOrderMarkdownFirst == <<"markdown", "json">>

\* index.ts lines 389 and 395: the JSON artifact is written, then the text
\* artifact.
SaveOrder == <<"json", "markdown">>

isAlreadyProcessedNever(pdfName) == FALSE

\* index.ts lines 238-249: the text artifact of the PDF can be accessed.
isAlreadyProcessed(pdfName) == files[pdfName].md # Missing

IdleProc ==
  [pdfName |-> "", pc |-> "idle", totalPages |-> 0, i |-> 0,
   allTokenUsages |-> <<>>, innerPagesParagraphs |-> <<>>,
   firstPageResult |-> <<>>, report |-> <<>>,
   totalTokenUsage |-> <<>>, estimatedCostUSD |-> 0, saved |-> 0,
   result |-> <<>>]

InitMain ==
  /\ locale \in Locales
  /\ pdfFiles \in PdfListings
  /\ files = [p \in { PdfNames[i] : i \in 1..Len(PdfNames) } |->
                [pages |-> FALSE, json |-> Missing, md |-> Missing]]
  /\ run = [n |-> 0, regenerateOnly |-> FALSE, pc |-> "idle", toProcess |-> <<>>,
            skipped |-> <<>>, reportDirs |-> <<>>, results |-> <<>>, k |-> 0]
  /\ proc = IdleProc
  /\ log = [analysed |-> <<>>, ops |-> {}, calls |-> <<>>,
            succeeded |-> {}, succeededNow |-> {},
            failedBefore |-> {}, failedNow |-> {},
            rendered |-> [p \in { PdfNames[i] : i \in 1..Len(PdfNames) } |-> Missing],
            written |-> [p \in { PdfNames[i] : i \in 1..Len(PdfNames) } |-> Missing]]
  /\ IdleSchema
  /\ IdleInner
  /\ IdleFirst
  /\ IdleDoc
  /\ IdleConc

NotMain == <<schemaVars, innerVars, firstVars, docVars, concVars, locale, pdfFiles>>

\* index.ts lines 420-456: a run of main starts, in regeneration mode
\* (lines 445-449, with the report directories readdir lists, lines 261-262)
\* or in processing mode.
StartRun(regenerateOnly) ==
  /\ run.pc \in {"idle", "done"}
  /\ run.n < MaxRuns
  /\ run' = [n |-> run.n + 1, regenerateOnly |-> regenerateOnly,
             pc |-> IF regenerateOnly THEN "regenerate" ELSE "list",
             toProcess |-> <<>>, skipped |-> <<>>,
             reportDirs |-> IF regenerateOnly
                              THEN SelectSeq(PdfNames, LAMBDA p : files[p].pages)
                              ELSE <<>>,
             results |-> <<>>, k |-> 1]
  /\ log' = [log EXCEPT !.ops = {}, !.calls = <<>>,
                        !.succeeded = @ \cup log.succeededNow, !.succeededNow = {},
                        !.failedBefore = (@ \ log.succeededNow) \cup log.failedNow,
                        !.failedNow = {}]
  /\ UNCHANGED <<files, proc, NotMain>>

\* index.ts lines 458-489: nothing to do without PDFs; otherwise the PDFs
\* are split into the already processed ones and the ones to process.
ListAndFilter ==
  /\ run.pc = "list"
  /\ LET toProcess == SelectSeq(pdfFiles, LAMBDA p : ~isAlreadyProcessed(p))
         skipped == SelectSeq(pdfFiles, LAMBDA p : isAlreadyProcessed(p))
     IN run' = [run EXCEPT !.toProcess = toProcess, !.skipped = skipped,
                           !.pc = IF Len(toProcess) = 0 THEN "done" ELSE "process"]
  /\ UNCHANGED <<files, proc, log, NotMain>>

RemainingUntilFailure ==
  /\ run.k <= Len(run.toProcess)
  /\ IF Len(run.results) = 0 THEN TRUE ELSE run.results[Len(run.results)].success

\* index.ts line 494: the for-of loop has a PDF of toProcess left, whatever
\* the results so far.
Remaining == run.k <= Len(run.toProcess)

\* index.ts lines 494-495 and 319-327: processPdf is called for the next PDF.
CallProcessPdf ==
  /\ run.pc = "process"
  /\ proc.pc = "idle"
  /\ Remaining
  /\ proc' = [IdleProc EXCEPT !.pdfName = run.toProcess[run.k], !.pc = "convert"]
  /\ log' = [log EXCEPT !.analysed = <<>>, !.calls = Append(@, run.toProcess[run.k])]
  /\ UNCHANGED <<files, run, NotMain>>

\* What the catch of lines 405-414 returns.
Failure(error) ==
  [proc EXCEPT !.pc = "failed",
               !.result = [pdfName |-> proc.pdfName, success |-> FALSE, error |-> error]]

\* index.ts lines 331-336: convertPdfToImages creates the pages directory
\* (pdfProcessor.ts line 21), then throws or returns the page images.
Convert(outcome) ==
  /\ proc.pc = "convert"
  /\ files' = [files EXCEPT ![proc.pdfName].pages = TRUE]
  /\ log' = [log EXCEPT !.ops = @ \cup {<<proc.pdfName, "conversion">>}]
  /\ proc' = IF ~outcome.ok THEN Failure(outcome.error)
             ELSE IF NoPagesConverted(outcome.totalPages)
               THEN Failure("No pages were converted from PDF")
             ELSE [proc EXCEPT !.totalPages = outcome.totalPages, !.pc = "first"]
  /\ UNCHANGED <<run, NotMain>>

\* index.ts lines 340-347: the first page is analysed; the loop starts at 1.
AnalyzeFirstPage(outcome) ==
  /\ proc.pc = "first"
  /\ log' = [log EXCEPT !.ops = @ \cup {<<proc.pdfName, "first page analysis">>}]
  /\ proc' = IF ~outcome.ok THEN Failure(outcome.error)
             ELSE [proc EXCEPT !.firstPageResult = outcome,
                               !.allTokenUsages = <<outcome.tokenUsage>>,
                               !.innerPagesParagraphs = <<>>,
                               !.i = 1, !.pc = "inner"]
  /\ UNCHANGED <<files, run, NotMain>>

\* index.ts lines 349-363: one iteration of the inner-page loop; a throw is
\* caught and logged, and the loop goes on.
AnalyzeInnerPage(outcome) ==
  /\ proc.pc = "inner"
  /\ proc.i < proc.totalPages
  /\ LET pageNumber == PageNumberOf(proc.i)
     IN /\ proc' = IF outcome.ok
                     THEN [proc EXCEPT
                             !.innerPagesParagraphs =
                                @ \o WithPageNumber(outcome.paragraphs, pageNumber),
                             !.allTokenUsages = Append(@, outcome.tokenUsage),
                             !.i = @ + 1]
                     ELSE [proc EXCEPT !.i = @ + 1]
        /\ log' = [log EXCEPT
                     !.ops = @ \cup {<<proc.pdfName, "inner page analysis">>},
                     !.analysed = Append(@, [page |-> proc.i + 1, outcome |-> outcome])]
  /\ UNCHANGED <<files, run, NotMain>>

\* index.ts lines 365-388: the totals, the Report and the report directory.
CompileReport ==
  /\ proc.pc = "inner"
  /\ proc.i >= proc.totalPages
  /\ LET totalTokenUsage == aggregateTokenUsage(proc.allTokenUsages)
     IN proc' = [proc EXCEPT
                   !.totalTokenUsage = totalTokenUsage,
                   !.estimatedCostUSD = calculateCost(totalTokenUsage),
                   !.report = [firstPage |-> proc.firstPageResult.data,
                               innerPagesParagraphs |-> proc.innerPagesParagraphs],
                   !.saved = 0, !.pc = "save"]
  /\ UNCHANGED <<files, run, log, NotMain>>

\* After an artifact is written: the other one is next, or the success
\* result of lines 398-404.
AfterSave ==
  IF proc.saved + 1 < Len(SaveOrder)
    THEN [proc EXCEPT !.saved = @ + 1]
    ELSE [proc EXCEPT !.saved = @ + 1, !.pc = "succeeded",
                      !.result = [pdfName |-> proc.pdfName, success |-> TRUE,
                                  error |-> ""]]

\* index.ts line 389.
WriteJson ==
  /\ proc.pc = "save"
  /\ SaveOrder[proc.saved + 1] = "json"
  /\ files' = [files EXCEPT ![proc.pdfName].json = JSONStringify(proc.report)]
  /\ log' = [log EXCEPT !.ops = @ \cup {<<proc.pdfName, "json write">>}]
  /\ proc' = AfterSave
  /\ UNCHANGED <<run, NotMain>>

\* index.ts lines 394-395.
WriteMarkdown ==
  /\ proc.pc = "save"
  /\ SaveOrder[proc.saved + 1] = "markdown"
  /\ LET md == generateMarkdown(proc.report.firstPage, proc.report.innerPagesParagraphs,
                                [schemaName |-> SchemaName,
                                 tokenUsage |-> proc.totalTokenUsage,
                                 estimatedCostUSD |-> proc.estimatedCostUSD])
     IN /\ files' = [files EXCEPT ![proc.pdfName].md = md]
        /\ log' = [log EXCEPT !.ops = @ \cup {<<proc.pdfName, "markdown write">>},
                              !.rendered[proc.pdfName] = proc.report,
                              !.written[proc.pdfName] = md]
  /\ proc' = AfterSave
  /\ UNCHANGED <<run, NotMain>>

\* index.ts lines 495-496: processPdf returns and its result is pushed.
ReturnResult ==
  /\ proc.pc \in {"succeeded", "failed"}
  /\ run' = [run EXCEPT !.results = Append(@, proc.result), !.k = @ + 1]
  /\ log' = IF proc.result.success
              THEN [log EXCEPT !.succeededNow = @ \cup {proc.pdfName}]
              ELSE [log EXCEPT !.failedNow = @ \cup {proc.pdfName}]
  /\ proc' = IdleProc
  /\ UNCHANGED <<files, NotMain>>

\* index.ts lines 499-542: the summary; the run ends.
FinishRun ==
  /\ run.pc = "process"
  /\ proc.pc = "idle"
  /\ ~Remaining
  /\ run' = [run EXCEPT !.pc = "done"]
  /\ UNCHANGED <<files, proc, log, NotMain>>

\* index.ts lines 266-308: one report directory; without a JSON artifact it
\* is skipped.
RegenerateDirectory ==
  /\ run.pc = "regenerate"
  /\ run.k <= Len(run.reportDirs)
  /\ LET reportName == run.reportDirs[run.k]
         recovered == RecoveredStatistics(files[reportName].md)
         report == JSONParseReport(files[reportName].json)
     IN files' = IF files[reportName].json = Missing THEN files
                 ELSE [files EXCEPT ![reportName].md =
                         generateMarkdown(report.firstPage, report.innerPagesParagraphs,
                                          [schemaName |-> SchemaName,
                                           tokenUsage |-> recovered.tokenUsage,
                                           estimatedCostUSD |-> recovered.estimatedCostUSD])]
  /\ run' = [run EXCEPT !.k = @ + 1]
  /\ UNCHANGED <<proc, log, NotMain>>

\* index.ts lines 310 and 447-448.
FinishRegeneration ==
  /\ run.pc = "regenerate"
  /\ run.k > Len(run.reportDirs)
  /\ run' = [run EXCEPT !.pc = "done"]
  /\ UNCHANGED <<files, proc, log, NotMain>>

NextMain ==
  \/ \E regenerateOnly \in BOOLEAN : StartRun(regenerateOnly)
  \/ ListAndFilter
  \/ CallProcessPdf
  \/ \E outcome \in ConversionOutcomes : Convert(outcome)
  \/ \E outcome \in FirstPageOutcomes : AnalyzeFirstPage(outcome)
  \/ \E outcome \in InnerPageOutcomes : AnalyzeInnerPage(outcome)
  \/ CompileReport
  \/ WriteJson
  \/ WriteMarkdown
  \/ ReturnResult
  \/ FinishRun
  \/ RegenerateDirectory
  \/ FinishRegeneration

SpecMain == InitMain /\ [][NextMain]_vars

-----------------------------------------------------------------------------
(* Properties of main, processPdf and regenerateMarkdownFiles.  The log    *)
(* records, per PDF, the Report processPdf rendered and the text artifact  *)
(* it wrote (rendered, written), the outcome of every inner-page analysis  *)
(* of the call under way (analysed), the operations of the run under way   *)
(* (ops), the PDFs processPdf was called for in the run under way, in the  *)
(* order of the calls (calls), and the PDFs whose latest call, in an       *)
(* earlier run, succeeded or failed (succeeded, failedBefore).             *)

ProcessedPdfs == { p \in DOMAIN files : log.written[p] # Missing }

\* C11: for a report directory whose JSON artifact and text artifact were
\* written by processPdf, regenerateMarkdownFiles rewrites a text artifact
\* identical to the existing one, the token counts and the cost being
\* recovered from the existing statistics table.
C11_RegenerationReproduces ==
  \A p \in ProcessedPdfs : files[p].md = log.written[p]

\* C12: the JSON write completes before generateMarkdown is called, and in
\* every state in which processPdf has written the text artifact of a PDF,
\* the JSON artifact of that PDF exists and holds the Report that was
\* rendered.
C12_JsonBeforeMarkdown ==
  /\ proc.pc = "save" /\ SaveOrder[proc.saved + 1] = "markdown" =>
       files[proc.pdfName].json = JSONStringify(proc.report)
  /\ \A p \in ProcessedPdfs :
       /\ files[p].json # Missing
       /\ JSONParseReport(files[p].json) = log.rendered[p]

\* The text artifact of a three-page PDF is written, over the JSON artifact
\* with the blocks of pages 2 and 3.
C12_Witness ==
  /\ proc.pc = "succeeded"
  /\ proc.pdfName = "alpha"
  /\ "alpha" \in ProcessedPdfs
  /\ files["alpha"].md # Missing
  /\ Len(Get(files["alpha"].json, "innerPagesParagraphs").v) = 3
  /\ Get(Get(files["alpha"].json, "innerPagesParagraphs").v[3], "pageNumber") = JNum(3)

\* The inner pages analysed with success, in the order of their analysis.
Analysed == SelectSeq(log.analysed, LAMBDA a : a.outcome.ok)

RECURSIVE SumOver(_, _)
SumOver(usages, field) ==
  IF Len(usages) = 0 THEN 0 ELSE Head(usages)[field] + SumOver(Tail(usages), field)

\* The usages of the first page and of the inner pages analysed with success.
CountedUsages == <<FirstPageUsage>> \o [j \in 1..Len(Analysed) |-> Analysed[j].outcome.tokenUsage]

C18_EarlyFailureWritesNothing ==
  /\ proc.pc \in {"first", "inner", "save", "succeeded"} => proc.totalPages > 0
  /\ proc.pc \in {"inner", "save", "succeeded"} => proc.firstPageResult.ok
  /\ proc.pc = "failed" =>
       /\ ~proc.result.success
       /\ proc.result.pdfName = proc.pdfName
       /\ proc.result.error \in {"Invalid PDF structure",
                                 "No pages were converted from PDF",
                                 "No response from GPT for first page analysis"}
       /\ files[proc.pdfName].json = Missing
       /\ files[proc.pdfName].md = Missing
       /\ <<proc.pdfName, "inner page analysis">> \notin log.ops
       /\ <<proc.pdfName, "json write">> \notin log.ops
       /\ <<proc.pdfName, "markdown write">> \notin log.ops

\* After the first PDF is processed, the first-page analysis of the second
\* fails: only its pages directory exists.
C18_Witness ==
  /\ proc.pc = "failed"
  /\ proc.pdfName = "beta"
  /\ proc.result.error = "No response from GPT for first page analysis"
  /\ files["beta"] = [pages |-> TRUE, json |-> Missing, md |-> Missing]
  /\ files["alpha"].md # Missing

RECURSIVE MarkerPages(_, _)
\* The page numbers of the page markers of a text artifact from line i on:
\* a "Page N" line directly followed by the underline rule.
MarkerPages(md, i) ==
  IF i >= Len(md) THEN <<>>
  ELSE (IF md[i + 1] = "-----------------------------------------"
           /\ \E n \in 1..(MaxPages + 1) : md[i] = "Page " \o ToString(n)
          THEN <<CHOOSE n \in 1..(MaxPages + 1) : md[i] = "Page " \o ToString(n)>>
          ELSE <<>>)
       \o MarkerPages(md, i + 1)

\* C19: in every Report built by processPdf the inner blocks' pageNumber
\* values are present, at least 2 and non-decreasing; the text artifact has
\* the "Page 1" marker first, then page markers with strictly increasing
\* page numbers (at most one per page, no second "Page 1" marker).
C19_PageMarkersIncrease ==
  \A p \in ProcessedPdfs :
    LET blocks == log.rendered[p].innerPagesParagraphs
        markers == MarkerPages(files[p].md, 1)
    IN /\ \A j \in 1..Len(blocks) :
            /\ blocks[j].pageNumber.t = "num"
            /\ blocks[j].pageNumber.v >= 2
            /\ j > 1 => blocks[j - 1].pageNumber.v <= blocks[j].pageNumber.v
       /\ Len(markers) >= 1
       /\ markers[1] = 1
       /\ \A j \in 2..Len(markers) : markers[j - 1] < markers[j]

\* A text artifact with the markers of pages 1, 2 and 3, page 2 holding the
\* body text "Page 1".
C19_Witness ==
  /\ "alpha" \in ProcessedPdfs
  /\ MarkerPages(files["alpha"].md, 1) = <<1, 2, 3>>
  /\ Cardinality({ i \in 1..Len(files["alpha"].md) : files["alpha"].md[i] = "Page 1" }) = 2

InList(list, p) == \E j \in 1..Len(list) : list[j] = p

\* C20: once processPdf has returned success for a PDF, every later
\* non-regeneration run classifies it as already processed and performs no
\* conversion, analysis or artifact write for it; a PDF whose latest
\* processing failed is processed again by the next non-regeneration run.
C20_ProcessedAtMostOnce ==
  ~run.regenerateOnly /\ run.pc \in {"process", "done"} =>
    /\ \A p \in log.succeeded :
         /\ InList(run.skipped, p)
         /\ ~InList(run.toProcess, p)
         /\ \A op \in log.ops : op[1] # p
    /\ \A p \in log.failedBefore : InList(run.toProcess, p)

\* A second run that has skipped the PDF the first run processed and has
\* processed again the one that had failed.
C20_Witness ==
  /\ run.n = 2
  /\ ~run.regenerateOnly
  /\ run.pc = "done"
  /\ log.succeeded = {"alpha"}
  /\ log.failedBefore = {"beta"}
  /\ run.skipped = <<"alpha">>
  /\ Len(run.results) = 1
  /\ run.results[1].pdfName = "beta"
  /\ run.results[1].success

\* The PDFs of the listing the run under way found without a text artifact,
\* in listing order.
NotYetProcessed == SelectSeq(pdfFiles, LAMBDA p : p \notin log.succeeded)

\* The number of calls of processPdf that have not returned.
CallsUnderWay == IF proc.pc = "idle" THEN 0 ELSE 1

\* C21: within one run, main calls processPdf exactly once for each
\* not-yet-processed PDF, one call after the other and in listing order; a
\* failure result for one PDF does not prevent the processing of the PDFs
\* after it; the results list has exactly one entry per such PDF, in the
\* same order.
C21_OneCallPerPdfInOrder ==
  ~run.regenerateOnly /\ run.pc \in {"process", "done"} =>
    /\ run.toProcess = NotYetProcessed
    /\ Len(log.calls) <= Len(NotYetProcessed)
    /\ log.calls = SubSeq(NotYetProcessed, 1, Len(log.calls))
    /\ Len(log.calls) = Len(run.results) + CallsUnderWay
    /\ \A j \in 1..Len(run.results) : run.results[j].pdfName = log.calls[j]
    /\ CallsUnderWay = 1 => proc.pdfName = log.calls[Len(log.calls)]
    /\ run.pc = "done" =>
         /\ log.calls = NotYetProcessed
         /\ Len(run.results) = Len(NotYetProcessed)

\* A finished run over the listing beta, alpha in which the processing of
\* beta failed and alpha was processed after it.
C21_Witness ==
  /\ ~run.regenerateOnly
  /\ run.pc = "done"
  /\ pdfFiles = <<"beta", "alpha">>
  /\ log.calls = <<"beta", "alpha">>
  /\ Len(run.results) = 2
  /\ run.results[1].pdfName = "beta"
  /\ ~run.results[1].success
  /\ run.results[2].pdfName = "alpha"
  /\ run.results[2].success

=============================================================================
